---- MODULE Spec2Model ----
(***************************************************************************)
(* Model of the agent-007 normalization core: the Agent turn loop          *)
(* (core/agent/agent.py), the provider adapters' chat generators           *)
(* (ai_agent/providers/*.py, core/providers/*.py) and the tool layer       *)
(* (ai_agent/tools/tools_base.py).                                         *)
(*                                                                         *)
(* Python text is a TLA+ string; Python's None is the string None below    *)
(* (no text of the model equals it).  An optional list is the record       *)
(* [none, items].                                                          *)
(***************************************************************************)
EXTENDS Integers, Sequences, FiniteSets, TLC

VARIABLES
    llm,                    \* Agent.llm: the adapter ProviderFactory built
    messages,               \* Agent.messages: the conversation history
    pc,                     \* position inside process_query ("idle" between calls)
    outcome,                \* how the last process_query call ended
    max_iterations,         \* argument of the running process_query call
    iter,                   \* completed passes of `for _ in range(max_iterations)`
    normalized,             \* local `normalized`: what llm.chat handed back
    pending,                \* tool calls of the round not yet executed
    last_response_content,  \* local of process_query
    chatCalls,              \* llm.chat calls made by the running process_query
    roundStart,             \* length of the history when the round's chat call was made
    gens,                   \* generator objects created by the adapters' chat
    REGISTERED_TOOLS,       \* tools_base.REGISTERED_TOOLS, in insertion order
    toolResult,             \* the last call into tools_base and how it ended
    registered              \* the functions handed to `tool` so far, in call order

agentVars == <<llm, messages, pc, outcome, max_iterations, iter, normalized,
               pending, last_response_content, chatCalls, roundStart, gens>>

toolVars == <<REGISTERED_TOOLS, toolResult, registered>>

vars == <<agentVars, toolVars>>

-----------------------------------------------------------------------------
(* Bounds of the model *)

\* largest max_iterations argument tried
MaxIterations == 2

\* tool calls the model requests over a run
MaxToolCalls == 2

\* process_query calls over a run
MaxQueries == 2

\* chunks a vendor stream delivers
MaxChunks == 1

\* process_query calls in stream mode over a run
MaxStreams == 1


-----------------------------------------------------------------------------
(* Values *)

None == "None"

ShippedProviders == {"openai", "claude", "gemini", "openrouter"}

\* An LLMProvider implementation that honours the documented interface
\* (non-stream chat returns the normalized response mapping), e.g. a test
\* double assigned to Agent.llm.
Conforming == "conforming"

Providers == ShippedProviders \cup {Conforming}

default_prompt == "You are a helpful assistant. Use tools when necessary."

PartialMarker == "Max tool-call iterations reached. Partial answer: "

UserInputs == {"What is 2+2?"}

ModelContents == {None, "4"}

ToolCallsNone == [none |-> TRUE, items |-> <<>>]

ToolCallsList(s) == [none |-> FALSE, items |-> s]

\* Python truthiness of an optional list: `if not tool_calls`
Truthy(tool_calls) == ~tool_calls.none /\ tool_calls.items # <<>>

\* Mutant of OrEmpty: the `or ""` is forgotten
OrEmpty_Dropped(content) == content

\* `content or ""`
OrEmpty(content) == IF content = None \/ content = "" THEN "" ELSE content

\* Tool-call objects a response may carry: .id, .function.name and
\* .function.arguments (a JSON text)
ToolCallUniverse ==
    { [id |-> "call_1", name |-> "query_database", arguments |-> "{\"query\": \"q\"}"],
      [id |-> "call_2", name |-> "nonexistent_tool", arguments |-> "{}"],
      [id |-> "call_3", name |-> "search_wikipedia", arguments |-> "{bad"] }

RECURSIVE SeqsUpTo(_, _)
SeqsUpTo(S, n) ==
    IF n = 0 THEN {<<>>}
    ELSE LET shorter == SeqsUpTo(S, n - 1)
         IN  shorter \cup {Append(s, x) : s \in shorter, x \in S}

\* How a tool handler (query_database, search_wikipedia) behaves when called
HandlerBehaviours == {"returns", "raises"}

-----------------------------------------------------------------------------
(* json *)

\* json.loads on the argument strings of the model: the parsed value, or a
\* JSONDecodeError
json_loads(s) ==
    CASE s = "{\"query\": \"q\"}" -> [ok |-> TRUE, t |-> "dict", keys |-> {"query"}, query |-> "q"]
      [] s = "{}"                 -> [ok |-> TRUE, t |-> "dict", keys |-> {}, query |-> ""]
      [] s = "[]"                 -> [ok |-> TRUE, t |-> "list", keys |-> {}, query |-> ""]
      [] OTHER                    -> [ok |-> FALSE, t |-> "error", keys |-> {}, query |-> ""]

\* json.dumps({"error": msg})
json_dumps_error(msg) == "{\"error\": \"" \o msg \o "\"}"

-----------------------------------------------------------------------------
(* Agent.execute_tool *)

\* What the handler fn returns for the query q
HandlerResult(fn, q) == fn \o "(" \o q \o ")"

\* Mutant of Agent_execute_tool: the final `else` is missing, an unknown name
\* falls through to a handler call
Agent_execute_tool_NoElse(tool_call, h) ==
    LET fn == tool_call.name
        args == json_loads(tool_call.arguments)
    IN  IF ~args.ok
        THEN json_dumps_error("Invalid tool call object: JSONDecodeError")
        ELSE HandlerResult(fn, IF "query" \in args.keys THEN args.query ELSE "")

\* h: how the handler behaves if it gets called
Agent_execute_tool(tool_call, h) ==
    LET fn == tool_call.name
        args == json_loads(tool_call.arguments)
    IN  IF ~args.ok
        THEN json_dumps_error("Invalid tool call object: JSONDecodeError")
        ELSE IF fn \in {"query_database", "search_wikipedia"}
             THEN IF args.t # "dict"
                  THEN json_dumps_error("Tool execution failed: AttributeError")
                  ELSE IF h = "raises"
                       THEN json_dumps_error("Tool execution failed: handler error")
                       ELSE HandlerResult(fn, IF "query" \in args.keys THEN args.query ELSE "")
             ELSE json_dumps_error("Unknown tool: " \o fn)

\* getattr(tc, "id", None)
ToolCallId(tc) == tc.id

-----------------------------------------------------------------------------
(* Messages *)

SystemMessage(c) == [role |-> "system", content |-> c, tool_call_id |-> None]

UserMessage(c) == [role |-> "user", content |-> c, tool_call_id |-> None]

AssistantMessage(c) == [role |-> "assistant", content |-> c, tool_call_id |-> None]

ToolMessage(tc, result) == [role |-> "tool", content |-> result, tool_call_id |-> ToolCallId(tc)]

RECURSIVE CountRole(_, _)
CountRole(ms, r) ==
    IF ms = <<>> THEN 0
    ELSE (IF Head(ms).role = r THEN 1 ELSE 0) + CountRole(Tail(ms), r)

-----------------------------------------------------------------------------
(* Provider adapters: chat(messages, tools, tool_choice, stream)           *)
(*                                                                         *)
(* Every shipped chat contains `yield`, so it is a generator function:     *)
(* calling it runs none of its body and returns a generator object; the    *)
(* body runs when the caller iterates, and `return {...}` inside it ends   *)
(* the iteration (the mapping travels in StopIteration, not as a chunk).   *)
(***************************************************************************)

\* The generator object a chat call creates.  held: the caller keeps a
\* reference to it and may iterate it.  The generator keeps a reference to
\* the list it was given as `messages` (Agent.messages itself, not a copy);
\* at_call is what that list held when chat was called, sent what it held at
\* each vendor request the generator made.
NewGenerator(provider, stream, held, history) ==
    [provider |-> provider, stream |-> stream, held |-> held, st |-> "created",
     requests |-> 0, received |-> <<>>, unsupported |-> FALSE,
     retval |-> "none", retcontent |-> None, at_call |-> history, sent |-> <<>>]

\* Adapters whose streaming branch sits in `try: ... except Exception: pass`
CatchesStreamFailure(provider) == provider \in {"openrouter", "claude", "gemini"}

\* Content of a vendor's non-stream reply
VendorContents == {"4"}

\* The non-streaming request and `return {...}` that follow the `if stream:`
\* block: the vendor answers or the request raises.
NonStreamOutcomes(g) ==
    { [g EXCEPT !.st = "done", !.requests = @ + 1, !.sent = Append(@, messages),
                !.retval = "ChatResponse", !.retcontent = c] : c \in VendorContents }
    \cup { [g EXCEPT !.st = "raised", !.requests = @ + 1, !.sent = Append(@, messages)] }

\* An exception inside the streaming branch: caught and followed by the
\* non-streaming request where the adapter has the try/except, else it
\* reaches the caller.
StreamFailure(g) ==
    IF CatchesStreamFailure(g.provider)
    THEN NonStreamOutcomes(g)
    ELSE { [g EXCEPT !.st = "raised"] }

\* One pass of `for chunk in stream_obj: yield {...}`: the next chunk is
\* yielded, the vendor signals completion (`return`), or the iteration or the
\* chunk's normalization raises.
ChunkOutcomes(g) ==
    (IF Len(g.received) < MaxChunks
     THEN { [g EXCEPT !.st = "streaming", !.received = Append(@, "delta")] }
     ELSE {})
    \cup { [g EXCEPT !.st = "done"] }
    \cup StreamFailure(g)

\* next(g): the generator's body runs to its next yield, return or raise
GeneratorNext(g) ==
    IF g.st = "streaming"
    THEN ChunkOutcomes(g)
    ELSE IF g.stream
         THEN LET requested == [g EXCEPT !.requests = @ + 1, !.sent = Append(@, messages)]
              IN  ChunkOutcomes(requested)
                  \cup StreamFailure([requested EXCEPT !.unsupported = TRUE])
         ELSE NonStreamOutcomes(g)

\* What a conforming provider's non-stream chat may hand back given the
\* history: a normalized response mapping, or a transport error it raises.
\* budget bounds the tool calls still to be requested in the run.
ConformingResponses(budget) ==
    { [kind |-> "dict", content |-> c, tool_calls |-> t] :
        c \in ModelContents,
        t \in {ToolCallsNone} \cup {ToolCallsList(s) : s \in SeqsUpTo(ToolCallUniverse, budget)} }

ChatRaised == [kind |-> "raised", content |-> None, tool_calls |-> ToolCallsNone]

ChatGenerator == [kind |-> "generator", content |-> None, tool_calls |-> ToolCallsNone]

ChatUnset == [kind |-> "unset", content |-> None, tool_calls |-> ToolCallsNone]

-----------------------------------------------------------------------------
(* Agent *)

Outcome(kind, value, handle) == [kind |-> kind, value |-> value, handle |-> handle]

\* Agent.__init__
Init ==
    /\ llm \in Providers
    /\ messages = <<SystemMessage(default_prompt)>>
    /\ pc = "idle"
    /\ outcome = Outcome("none", None, 0)
    /\ max_iterations = 0
    /\ iter = 0
    /\ normalized = ChatUnset
    /\ pending = <<>>
    /\ last_response_content = ""
    /\ chatCalls = 0
    /\ roundStart = 0
    /\ gens = <<>>
    /\ REGISTERED_TOOLS = <<>>
    /\ toolResult = [op |-> "none"]
    /\ registered = <<>>

\* process_query up to the first chat request: the user message is appended;
\* in stream mode the adapter's generator is returned at once.
ProcessQuery(user_input, mi, stream) ==
    /\ pc = "idle"
    /\ CountRole(messages, "user") < MaxQueries
    /\ messages' = Append(messages, UserMessage(user_input))
    /\ normalized' = ChatUnset
    /\ pending' = <<>>
    /\ iter' = 0
    /\ last_response_content' = ""
    /\ roundStart' = Len(messages) + 1
    /\ IF stream
       THEN /\ Cardinality({i \in 1..Len(gens) : gens[i].stream}) < MaxStreams
            /\ gens' = Append(gens, NewGenerator(llm, TRUE, TRUE, messages'))
            /\ outcome' = Outcome("stream", None, Len(gens) + 1)
            /\ chatCalls' = 1
            /\ max_iterations' = 0
            /\ pc' = "exit"
       ELSE /\ outcome' = Outcome("running", None, 0)
            /\ chatCalls' = 0
            /\ max_iterations' = mi
            /\ pc' = "loop"
            /\ UNCHANGED gens
    /\ UNCHANGED <<llm, toolVars>>

\* Mutant of LoopContinues: the loop runs one pass too many
LoopContinues_OffByOne(i, mi) == i <= mi

\* `for _ in range(max_iterations)`: another pass follows
LoopContinues(i, mi) == i < mi

\* The part of a round after the response is in hand (lines 58-67 and the
\* entry of the tool loop)
HandleResponse(r) ==
    /\ normalized' = r
    /\ IF ~Truthy(r.tool_calls)
       THEN /\ messages' = Append(messages, AssistantMessage(OrEmpty(r.content)))
            /\ last_response_content' = OrEmpty(r.content)
            /\ outcome' = Outcome("done", OrEmpty(r.content), 0)
            /\ pc' = "exit"
            /\ UNCHANGED pending
       ELSE /\ pending' = r.tool_calls.items
            /\ pc' = "tools"
            /\ UNCHANGED <<messages, last_response_content, outcome>>

\* One chat request of the loop and the reading of its result
RequestCompletion ==
    /\ pc = "loop"
    /\ LoopContinues(iter, max_iterations)
    /\ chatCalls' = chatCalls + 1
    /\ roundStart' = Len(messages)
    /\ IF llm \in ShippedProviders
       THEN \* the call returns a generator object; normalized.get raises
            \* AttributeError, which leaves process_query
            /\ gens' = Append(gens, NewGenerator(llm, FALSE, FALSE, messages))
            /\ normalized' = ChatGenerator
            /\ outcome' = Outcome("raised", "AttributeError", 0)
            /\ pc' = "exit"
            /\ UNCHANGED <<messages, pending, last_response_content>>
       ELSE /\ UNCHANGED gens
            /\ \/ \E r \in ConformingResponses(MaxToolCalls - CountRole(messages, "tool")) :
                     HandleResponse(r)
               \/ /\ normalized' = ChatRaised
                  /\ outcome' = Outcome("raised", "ProviderRequestError", 0)
                  /\ pc' = "exit"
                  /\ UNCHANGED <<messages, pending, last_response_content>>
    /\ UNCHANGED <<llm, max_iterations, iter, toolVars>>

\* Mutant of NextToolCall: the calls are taken from the end of the list
NextToolCall_Reversed(p) == p[Len(p)]

\* `for tc in tool_calls`: the call the loop takes next
NextToolCall(p) == Head(p)

\* One pass of `for tc in tool_calls`: execute the call, append its result
ExecuteToolCall ==
    /\ pc = "tools"
    /\ pending # <<>>
    /\ LET tc == NextToolCall(pending)
       IN  \E h \in HandlerBehaviours :
               messages' = Append(messages, ToolMessage(tc, Agent_execute_tool(tc, h)))
    /\ pending' = Tail(pending)
    /\ IF Tail(pending) = <<>>
       THEN iter' = iter + 1 /\ pc' = "loop"
       ELSE UNCHANGED <<iter, pc>>
    /\ UNCHANGED <<llm, outcome, max_iterations, normalized, last_response_content,
                   chatCalls, roundStart, gens, toolVars>>

\* The loop ran out of passes
final_msg(lrc) == PartialMarker \o OrEmpty(lrc)

\* Mutant of IterationLimit: the final message replaces the last message of
\* the history
IterationLimit_Overwrites ==
    /\ pc = "loop"
    /\ ~LoopContinues(iter, max_iterations)
    /\ messages' = [messages EXCEPT ![Len(messages)] =
                        AssistantMessage(final_msg(last_response_content))]
    /\ outcome' = Outcome("limit", final_msg(last_response_content), 0)
    /\ pc' = "exit"
    /\ UNCHANGED <<llm, max_iterations, iter, normalized, pending,
                   last_response_content, chatCalls, roundStart, gens, toolVars>>

IterationLimit ==
    /\ pc = "loop"
    /\ ~LoopContinues(iter, max_iterations)
    /\ messages' = Append(messages, AssistantMessage(final_msg(last_response_content)))
    /\ outcome' = Outcome("limit", final_msg(last_response_content), 0)
    /\ pc' = "exit"
    /\ UNCHANGED <<llm, max_iterations, iter, normalized, pending,
                   last_response_content, chatCalls, roundStart, gens, toolVars>>

\* process_query's frame ends (return or raise): its arguments and locals are
\* gone and the caller has the outcome
Exit ==
    /\ pc = "exit"
    /\ pc' = "idle"
    /\ max_iterations' = 0
    /\ iter' = 0
    /\ normalized' = ChatUnset
    /\ pending' = <<>>
    /\ last_response_content' = ""
    /\ chatCalls' = 0
    /\ roundStart' = 0
    /\ UNCHANGED <<llm, messages, outcome, gens, toolVars>>

\* Mutant of ConsumeStream: what the stream delivers is also appended to the
\* history as an assistant message
ConsumeStream_AppendsChunk(i) ==
    /\ pc = "idle"
    /\ gens[i].held
    /\ gens[i].st \in {"created", "streaming"}
    /\ \E g \in GeneratorNext(gens[i]) : gens' = [gens EXCEPT ![i] = g]
    /\ messages' = Append(messages, AssistantMessage("delta"))
    /\ UNCHANGED <<llm, pc, outcome, max_iterations, iter, normalized,
                   pending, last_response_content, chatCalls, roundStart, toolVars>>

\* The caller of process_query(stream=True) pulls from the handle it got
ConsumeStream(i) ==
    /\ pc = "idle"
    /\ gens[i].held
    /\ gens[i].st \in {"created", "streaming"}
    /\ \E g \in GeneratorNext(gens[i]) : gens' = [gens EXCEPT ![i] = g]
    /\ UNCHANGED <<llm, messages, pc, outcome, max_iterations, iter, normalized,
                   pending, last_response_content, chatCalls, roundStart, toolVars>>

Next ==
    \/ \E u \in UserInputs, mi \in 0..MaxIterations : ProcessQuery(u, mi, FALSE)
    \/ \E u \in UserInputs : llm \in ShippedProviders /\ ProcessQuery(u, 0, TRUE)
    \/ RequestCompletion
    \/ ExecuteToolCall
    \/ IterationLimit
    \/ Exit
    \/ \E i \in 1..Len(gens) : ConsumeStream(i)

Spec == Init /\ [][Next]_vars

\* A process_query call in progress runs on: the interpreter executes its next
\* statement
FairSpec == Spec /\ WF_vars(RequestCompletion \/ ExecuteToolCall \/ IterationLimit \/ Exit)

-----------------------------------------------------------------------------
(* Tool layer: tools_base.py *)

\* entries a vendor payload lists at most
MaxEntries == 2

\* calls of the decorator `tool` over a run
MaxRegistrations == 3

\* A Python value that is a text, or a mapping (written as its JSON text)
PyStr(text) == [t |-> "str", v |-> text]

PyDict(text) == [t |-> "dict", v |-> text]

\* Functions handed to the `tool` decorator: __name__, __doc__, parameters
\* (name, annotation, whether it has a default).  The two add functions are
\* two definitions under one name.
ToolFunctions ==
    { [name |-> "add", doc |-> "Add two numbers.",
       params |-> << [name |-> "a", annotation |-> "int", has_default |-> FALSE],
                     [name |-> "b", annotation |-> "int", has_default |-> FALSE] >>],
      [name |-> "add", doc |-> None,
       params |-> << [name |-> "a", annotation |-> "float", has_default |-> FALSE],
                     [name |-> "b", annotation |-> "str", has_default |-> TRUE] >>],
      [name |-> "generate_uuid", doc |-> "Generate a UUID.", params |-> <<>>] }

\* The JSON type build_tool_schema gives an annotation
ptype(annotation) ==
    CASE annotation = "int"   -> "integer"
      [] annotation = "float" -> "number"
      [] annotation = "bool"  -> "boolean"
      [] annotation = "list"  -> "array"
      [] annotation = "dict"  -> "object"
      [] OTHER                -> "string"

build_tool_schema(fn) ==
    [name |-> fn.name,
     description |-> IF fn.doc = None \/ fn.doc = "" THEN fn.name ELSE fn.doc,
     parameters |->
        [type |-> "object",
         properties |-> [i \in 1..Len(fn.params) |->
                            [name |-> fn.params[i].name,
                             type |-> ptype(fn.params[i].annotation),
                             description |-> "Parameter " \o fn.params[i].name]],
         required |-> LET needed == SelectSeq(fn.params, LAMBDA q : ~q.has_default)
                      IN  [i \in 1..Len(needed) |-> needed[i].name]]]

\* Mutant of DictSet: an existing key keeps its old value
DictSet_KeepsOld(d, key, value) ==
    IF \E i \in 1..Len(d) : d[i].key = key
    THEN d
    ELSE Append(d, [key |-> key, value |-> value])

\* Mutant of DictSet: an existing key moves to the end
DictSet_MovesToEnd(d, key, value) ==
    Append(SelectSeq(d, LAMBDA item : item.key # key), [key |-> key, value |-> value])

\* d[key] = value on a dict kept as the sequence of its items in insertion
\* order: an existing key keeps its place
DictSet(d, key, value) ==
    IF \E i \in 1..Len(d) : d[i].key = key
    THEN [i \in 1..Len(d) |-> IF d[i].key = key THEN [key |-> key, value |-> value] ELSE d[i]]
    ELSE Append(d, [key |-> key, value |-> value])

DictKeys(d) == {d[i].key : i \in 1..Len(d)}

DictGet(d, key) == (CHOOSE i \in 1..Len(d) : d[i].key = key)

\* The decorator tool: the function object carries its schema from then on
tool(fn) ==
    /\ Len(registered) < MaxRegistrations
    /\ registered' = Append(registered, fn)
    /\ REGISTERED_TOOLS' = DictSet(REGISTERED_TOOLS, fn.name,
                                   [fn |-> fn, __tool_schema__ |-> build_tool_schema(fn)])
    /\ toolResult' = [op |-> "tool", fn |-> fn]
    /\ UNCHANGED agentVars

\* How a call ends: with the value it returns, or with the exception it raises
Returned(v) == [raised |-> FALSE, value |-> v]

Raised(e) == [raised |-> TRUE, exc |-> e]

\* fn(**arguments): the keywords must cover the parameters without default
\* and name parameters only; then the body returns or raises
CallOutcome(fn, arguments, h) ==
    LET names == {fn.params[i].name : i \in 1..Len(fn.params)}
        needed == {fn.params[i].name : i \in {j \in 1..Len(fn.params) : ~fn.params[j].has_default}}
    IN  IF ~(needed \subseteq arguments /\ arguments \subseteq names)
        THEN Raised("TypeError")
        ELSE IF h = "raises" THEN Raised("Exception") ELSE Returned(HandlerResult(fn.name, ""))

\* execute_tool(tool_name, arguments) of tools_base
execute_tool_result(registry, tool_name, arguments, h) ==
    IF tool_name \notin DictKeys(registry)
    THEN Raised("ValueError")
    ELSE CallOutcome(registry[DictGet(registry, tool_name)].value.fn, arguments, h)

execute_tool(tool_name, arguments) ==
    /\ \E h \in HandlerBehaviours :
          toolResult' = [op |-> "execute_tool", tool_name |-> tool_name,
                         arguments |-> arguments,
                         result |-> execute_tool_result(REGISTERED_TOOLS, tool_name, arguments, h)]
    /\ UNCHANGED <<REGISTERED_TOOLS, registered, agentVars>>

ToolNames == {"add", "generate_uuid", "nonexistent_tool"}

KeywordSets == {{}, {"a", "b"}}

(* Vendor payloads for normalize_tool_calls.  A payload is None, a dict (keys *)
(* tool_calls and content, each absent, null or a list) or an object with the *)
(* attribute candidates.                                                      *)

Absent == [state |-> "absent", items |-> <<>>]

Null == [state |-> "null", items |-> <<>>]

ListOf(s) == [state |-> "list", items |-> s]

NonePayload == [t |-> "None", tool_calls |-> Absent, content |-> Absent, candidates |-> Absent]

DictPayload(tool_calls, content) ==
    [t |-> "dict", tool_calls |-> tool_calls, content |-> content, candidates |-> Absent]

ObjectPayload(candidates) ==
    [t |-> "object", tool_calls |-> Absent, content |-> Absent, candidates |-> ListOf(candidates)]

\* entries of an OpenAI-style tool_calls array
OpenAIEntries ==
    { [function |-> [name |-> "add", arguments |-> "{\"query\": \"q\"}"]],
      [function |-> [name |-> "search_wikipedia", arguments |-> "{bad"]] }

\* Anthropic content blocks
AnthropicBlocks ==
    { [type |-> "text", name |-> None, input |-> PyDict("{}")],
      [type |-> "tool_use", name |-> "add", input |-> PyDict("{\"a\": 2}")] }

\* Gemini content parts, with or without the attribute function_call
GeminiParts ==
    { [has_function_call |-> FALSE, name |-> None, args |-> PyDict("{}")],
      [has_function_call |-> TRUE, name |-> "add", args |-> PyDict("{\"a\": 2}")] }

Payloads ==
    {NonePayload}
    \cup {DictPayload(t, Absent) : t \in {Absent, Null} \cup {ListOf(s) : s \in SeqsUpTo(OpenAIEntries, MaxEntries)}}
    \cup {DictPayload(Absent, c) : c \in {Null} \cup {ListOf(s) : s \in SeqsUpTo(AnthropicBlocks, MaxEntries)}}
    \cup {ObjectPayload(<<>>)}
    \cup {ObjectPayload(<<[parts |-> s]>>) : s \in SeqsUpTo(GeminiParts, MaxEntries)}

VendorTags == {"openai", "groq", "openrouter", "anthropic", "gemini", "mistral"}

OpenAICompatible == {"openai", "groq", "openrouter"}

\* dict.get(key, []) on a key that is absent, null or a list
GetOrEmpty(field) == IF field.state = "absent" THEN ListOf(<<>>) ELSE field

OpenAIRecord(tc) ==
    [tool_name |-> tc.function.name, arguments |-> PyStr(tc.function.arguments), raw |-> tc]

AnthropicRecord(item) ==
    [tool_name |-> item.name, arguments |-> item.input, raw |-> item]

GeminiRecord(part) ==
    [tool_name |-> part.name, arguments |-> part.args, raw |-> part]

\* `return normalized`: the list of unified records
ReturnedCalls(s) == [raised |-> FALSE, calls |-> s]

normalize_tool_calls_result(provider, raw) ==
    IF raw.t = "None" THEN ReturnedCalls(<<>>)
    ELSE IF provider \in OpenAICompatible
    THEN IF raw.t # "dict" THEN Raised("AttributeError")
         ELSE LET calls == GetOrEmpty(raw.tool_calls)
              IN  IF calls.state = "null" THEN Raised("TypeError")
                  ELSE ReturnedCalls([i \in 1..Len(calls.items) |-> OpenAIRecord(calls.items[i])])
    ELSE IF provider = "anthropic"
    THEN IF raw.t # "dict" THEN Raised("AttributeError")
         ELSE LET msgs == GetOrEmpty(raw.content)
              IN  IF msgs.state = "null" THEN Raised("TypeError")
                  ELSE LET uses == SelectSeq(msgs.items, LAMBDA item : item.type = "tool_use")
                       IN  ReturnedCalls([i \in 1..Len(uses) |-> AnthropicRecord(uses[i])])
    ELSE IF provider = "gemini"
    THEN IF raw.t # "object" THEN Raised("AttributeError")
         ELSE IF raw.candidates.items = <<>> THEN Raised("IndexError")
         ELSE LET parts == SelectSeq(raw.candidates.items[1].parts,
                                     LAMBDA part : part.has_function_call)
              IN  ReturnedCalls([i \in 1..Len(parts) |-> GeminiRecord(parts[i])])
    ELSE ReturnedCalls(<<>>)

normalize_tool_calls(provider, raw) ==
    /\ toolResult' = [op |-> "normalize_tool_calls", provider |-> provider, raw |-> raw,
                      result |-> normalize_tool_calls_result(provider, raw)]
    /\ UNCHANGED <<REGISTERED_TOOLS, registered, agentVars>>

(* Schema exports: each walks REGISTERED_TOOLS in the dict's order and reads *)
(* the schema the decorator put on the function object.                     *)

\* REGISTERED_TOOLS.values()
DictValues(d) == [i \in 1..Len(d) |-> d[i].value]

openai_tools_format_result(registry) ==
    LET fns == DictValues(registry)
    IN  [i \in 1..Len(fns) |-> [type |-> "function", function |-> fns[i].__tool_schema__]]

anthropic_tools_format_result(registry) ==
    LET fns == DictValues(registry)
    IN  [i \in 1..Len(fns) |->
            [name |-> fns[i].__tool_schema__.name,
             description |-> fns[i].__tool_schema__.description,
             input_schema |-> fns[i].__tool_schema__.parameters]]

gemini_tools_format_result(registry) ==
    LET fns == DictValues(registry)
    IN  [i \in 1..Len(fns) |->
            [name |-> fns[i].__tool_schema__.name,
             description |-> fns[i].__tool_schema__.description,
             parameters |-> fns[i].__tool_schema__.parameters]]

\* {name: fn.__tool_schema__ for name, fn in REGISTERED_TOOLS.items()}
get_all_tool_schemas_result(registry) ==
    [i \in 1..Len(registry) |->
        [key |-> registry[i].key, value |-> registry[i].value.__tool_schema__]]

openai_tools_format ==
    /\ toolResult' = [op |-> "openai_tools_format",
                      schemas |-> openai_tools_format_result(REGISTERED_TOOLS)]
    /\ UNCHANGED <<REGISTERED_TOOLS, registered, agentVars>>

anthropic_tools_format ==
    /\ toolResult' = [op |-> "anthropic_tools_format",
                      schemas |-> anthropic_tools_format_result(REGISTERED_TOOLS)]
    /\ UNCHANGED <<REGISTERED_TOOLS, registered, agentVars>>

gemini_tools_format ==
    /\ toolResult' = [op |-> "gemini_tools_format",
                      schemas |-> gemini_tools_format_result(REGISTERED_TOOLS)]
    /\ UNCHANGED <<REGISTERED_TOOLS, registered, agentVars>>

get_all_tool_schemas ==
    /\ toolResult' = [op |-> "get_all_tool_schemas",
                      schemas |-> get_all_tool_schemas_result(REGISTERED_TOOLS)]
    /\ UNCHANGED <<REGISTERED_TOOLS, registered, agentVars>>

\* The tool layer on its own: registrations and calls in any order
InitTools ==
    /\ Init
    /\ llm = "openai"

NextTools ==
    \/ \E fn \in ToolFunctions : tool(fn)
    \/ \E n \in ToolNames, kw \in KeywordSets : execute_tool(n, kw)
    \/ \E provider \in VendorTags, raw \in Payloads : normalize_tool_calls(provider, raw)
    \/ openai_tools_format
    \/ anthropic_tools_format
    \/ gemini_tools_format
    \/ get_all_tool_schemas

SpecTools == InitTools /\ [][NextTools]_vars

-----------------------------------------------------------------------------
(* Properties of the Agent turn loop *)

Last(ms) == ms[Len(ms)]

StartsWith(s, prefix) == Len(s) >= Len(prefix) /\ SubSeq(s, 1, Len(prefix)) = prefix

IsErrorRecord(s) == StartsWith(s, "{\"error\": \"")

\* The normalized response of the round in hand carries no tool call
ToolCallFree(r) == r.kind = "dict" /\ (r.tool_calls.none \/ Len(r.tool_calls.items) = 0)

\* C1: a step in which the loop receives a response without tool calls appends
\* exactly one assistant message holding the response content ("" for null)
\* and returns that string.
C1_DoneOnNoToolCalls ==
    [][ (pc = "loop" /\ chatCalls' = chatCalls + 1 /\ ToolCallFree(normalized'))
        => LET text == IF normalized'.content = None THEN "" ELSE normalized'.content
           IN  /\ messages' = Append(messages, [role |-> "assistant", content |-> text,
                                                tool_call_id |-> None])
               /\ outcome'.kind = "done"
               /\ outcome'.value = text
               /\ pc' = "exit" ]_vars

C1_Witness ==
    /\ pc = "exit"
    /\ outcome.kind = "done"
    /\ ToolCallFree(normalized)
    /\ normalized.content = None
    /\ outcome.value = ""
    /\ Last(messages).role = "assistant"

\* C2: in a round whose response carries k >= 1 tool calls, the messages
\* appended since the round's chat call are tool messages only, the i-th one
\* tagged with the i-th call's identifier and holding a result of executing
\* it; no chat call is made until all k are appended.
C2_ToolRound ==
    (pc \in {"tools", "loop"} /\ normalized.kind = "dict" /\ ~ToolCallFree(normalized))
    => LET calls == normalized.tool_calls.items
           k == Len(calls)
           executed == k - Len(pending)
       IN  /\ k >= 1
           /\ Len(messages) = roundStart + executed
           /\ \A i \in 1..executed :
                 /\ messages[roundStart + i].role = "tool"
                 /\ messages[roundStart + i].tool_call_id = calls[i].id
                 /\ \E h \in HandlerBehaviours :
                        messages[roundStart + i].content = Agent_execute_tool(calls[i], h)
           /\ pending = SubSeq(calls, executed + 1, k)
           /\ (pc = "loop" <=> executed = k)
           /\ chatCalls = iter + (IF pc = "tools" THEN 1 ELSE 0)

C2_Witness ==
    /\ pc = "loop"
    /\ normalized.kind = "dict"
    /\ Len(normalized.tool_calls.items) = 2
    /\ normalized.tool_calls.items[1] # normalized.tool_calls.items[2]
    /\ pending = <<>>
    /\ Last(messages).role = "tool"

\* Part of C3: a non-stream call makes at most max_iterations chat calls, and when it
\* returns without any round having had a tool-call-free response, the string
\* it returns starts with the partial-answer marker and is the content of the
\* assistant message that ends the history.
C3_IterationBound ==
    /\ (pc # "idle" /\ outcome.kind # "stream") => chatCalls <= max_iterations
    /\ (pc = "exit" /\ outcome.kind \in {"done", "limit"} /\ ~ToolCallFree(normalized))
       => /\ StartsWith(outcome.value, PartialMarker)
          /\ Last(messages) = [role |-> "assistant", content |-> outcome.value,
                               tool_call_id |-> None]

\* C3: the bound and the final result above hold throughout, and every
\* process_query call that has started comes to its end.
C3_BoundedTermination == []C3_IterationBound /\ ((pc # "idle") ~> (pc = "idle"))

C3_Witness ==
    /\ pc = "exit"
    /\ outcome.kind = "limit"
    /\ max_iterations = MaxIterations
    /\ chatCalls = max_iterations
    /\ Last(messages).content = outcome.value

\* C4: no process_query call on a constructed Agent ends by raising.
C4_NeverRaises == outcome.kind # "raised"

\* C5: a chat call with stream=false hands its caller a ChatResponse record
\* (unless it raises) and has performed exactly one vendor request by then.
C5_NonStreamReturnsResponse ==
    /\ (pc # "idle" /\ outcome.kind # "stream" /\ chatCalls > 0 /\ normalized.kind # "raised")
       => normalized.kind = "dict"
    /\ \A i \in 1..Len(gens) : ~gens[i].stream => gens[i].requests = 1

\* C6: a stream-mode chat whose streaming request failed as unsupported has
\* made the one non-streaming request, and when that request succeeded the
\* iteration ended normally with the response content among the chunks the
\* caller received.
C6_FallbackKeepsContent ==
    \A i \in 1..Len(gens) :
        LET g == gens[i]
        IN  (g.provider \in ShippedProviders /\ g.stream /\ g.unsupported
                /\ g.st \in {"done", "raised"})
            => /\ g.requests = 2
               /\ g.retval = "ChatResponse"
                  => /\ g.st = "done"
                     /\ \E k \in 1..Len(g.received) : g.received[k] = g.retcontent

\* C8: a step that executes a tool call never leaves process_query; it appends
\* one tool message tagged with the call's identifier, holding an error record
\* when the tool is unknown or the argument JSON is malformed (an error record
\* or the handler's result otherwise), and goes on to the rest of the round;
\* with the round done and passes left, the next step is the next chat call.
C8_ToolErrorsContained ==
    [][ /\ pc = "tools"
           => LET tc == Head(pending)
                  appended == Last(messages')
              IN  /\ pc' = (IF Len(pending) > 1 THEN "tools" ELSE "loop")
                  /\ outcome' = outcome
                  /\ Len(messages') = Len(messages) + 1
                  /\ SubSeq(messages', 1, Len(messages)) = messages
                  /\ appended.role = "tool"
                  /\ appended.tool_call_id = tc.id
                  /\ (tc.name \notin {"query_database", "search_wikipedia"}
                         \/ ~json_loads(tc.arguments).ok)
                     => IsErrorRecord(appended.content)
                  /\ \/ IsErrorRecord(appended.content)
                     \/ appended.content = HandlerResult(tc.name, json_loads(tc.arguments).query)
                  /\ pending' = Tail(pending)
        /\ (pc = "loop" /\ iter < max_iterations) => chatCalls' = chatCalls + 1
      ]_vars

C8_Witness ==
    /\ chatCalls = 2
    /\ \E i \in 1..(Len(messages) - 1) :
          /\ messages[i].role = "tool"
          /\ messages[i].content = "{\"error\": \"Tool execution failed: handler error\"}"
          /\ messages[i + 1].role = "tool"
          /\ messages[i + 1].content = "{\"error\": \"Unknown tool: nonexistent_tool\"}"

-----------------------------------------------------------------------------
(* Properties of the tool layer *)

\* C7: execute_tool on a name that is not registered returns an error record
\* and does not raise, whatever the registry holds.
C7_UnknownToolReturnsError ==
    (toolResult.op = "execute_tool" /\ toolResult.tool_name \notin DictKeys(REGISTERED_TOOLS))
    => /\ ~toolResult.result.raised
       /\ IsErrorRecord(toolResult.result.value)

\* C9: for an OpenAI-compatible tag and a tool_calls array of n entries the
\* result has n records in the array's order, each with the entry's function
\* name and its arguments parsed into a mapping; an entry with malformed
\* argument JSON carries a normalization error instead.
C9_OpenAIArgumentsParsed ==
    (toolResult.op = "normalize_tool_calls"
        /\ toolResult.provider \in {"openai", "groq", "openrouter"}
        /\ toolResult.raw.t = "dict"
        /\ toolResult.raw.tool_calls.state = "list")
    => LET entries == toolResult.raw.tool_calls.items
           res == toolResult.result
       IN  /\ ~res.raised
           /\ Len(res.calls) = Len(entries)
           /\ \A i \in 1..Len(entries) :
                 /\ res.calls[i].tool_name = entries[i].function.name
                 /\ IF json_loads(entries[i].function.arguments).ok
                    THEN res.calls[i].arguments.t = "dict"
                    ELSE "error" \in DOMAIN res.calls[i]

\* The payload lists no tool call in any vendor's form
CarriesNoToolCalls(raw) ==
    \/ raw.t = "None"
    \/ /\ raw.t = "dict"
       /\ raw.tool_calls.items = <<>>
       /\ \A i \in 1..Len(raw.content.items) : raw.content.items[i].type # "tool_use"
    \/ /\ raw.t = "object"
       /\ \/ raw.candidates.items = <<>>
          \/ \A i \in 1..Len(raw.candidates.items[1].parts) :
                ~raw.candidates.items[1].parts[i].has_function_call

\* The payload has the form the vendor tag stands for
ShapeFits(provider, raw) ==
    \/ raw.t = "None"
    \/ provider \in {"openai", "groq", "openrouter", "anthropic"} /\ raw.t = "dict"
    \/ provider = "gemini" /\ raw.t = "object"
    \/ provider \notin {"openai", "groq", "openrouter", "anthropic", "gemini"}

\* C10: normalize_tool_calls returns the empty sequence, without raising, for
\* every payload without tool calls and every vendor tag, known or not.
C10_NoToolCallsGivesEmpty ==
    (toolResult.op = "normalize_tool_calls"
        /\ CarriesNoToolCalls(toolResult.raw)
        /\ ShapeFits(toolResult.provider, toolResult.raw))
    => /\ ~toolResult.result.raised
       /\ toolResult.result.calls = <<>>

-----------------------------------------------------------------------------
(* Properties of the registry and the schema exports *)

ExportOps == {"openai_tools_format", "anthropic_tools_format",
              "gemini_tools_format", "get_all_tool_schemas"}

\* The function most recently handed to `tool` under the name n
LatestRegistered(n) ==
    registered[CHOOSE i \in 1..Len(registered) :
                  /\ registered[i].name = n
                  /\ \A j \in (i + 1)..Len(registered) : registered[j].name # n]

RegisteredNames == {registered[i].name : i \in 1..Len(registered)}

\* Part of C11: the registry holds exactly the registered names, each once; the
\* lookup of a name gives the function most recently registered under it and
\* the definition built from that function; every definition carries its key.
C11_LookupConsistent ==
    /\ DictKeys(REGISTERED_TOOLS) = RegisteredNames
    /\ \A i, j \in 1..Len(REGISTERED_TOOLS) :
          REGISTERED_TOOLS[i].key = REGISTERED_TOOLS[j].key => i = j
    /\ \A n \in RegisteredNames :
          LET entry == REGISTERED_TOOLS[DictGet(REGISTERED_TOOLS, n)].value
          IN  /\ entry.fn = LatestRegistered(n)
              /\ entry.__tool_schema__ = build_tool_schema(LatestRegistered(n))
    /\ \A i \in 1..Len(REGISTERED_TOOLS) :
          REGISTERED_TOOLS[i].value.__tool_schema__.name = REGISTERED_TOOLS[i].key

\* C11: the lookup is consistent after every sequence of registrations, and
\* an export repeated with no registration in between gives the same output.
C11_RegistryDeterministic ==
    /\ []C11_LookupConsistent
    /\ [][ (toolResult.op \in ExportOps /\ toolResult'.op = toolResult.op)
            => toolResult'.schemas = toolResult.schemas ]_vars

C11_Witness ==
    /\ toolResult.op = "get_all_tool_schemas"
    /\ Len(toolResult.schemas) = 2
    /\ \E i, j \in 1..Len(registered) :
          /\ i < j
          /\ registered[i].name = registered[j].name
          /\ registered[i] # registered[j]

\* Names in the order of their first registration
RECURSIVE FirstRegistrationOrder(_)
FirstRegistrationOrder(regs) ==
    IF regs = <<>> THEN <<>>
    ELSE LET n == Head(regs).name
         IN  <<n>> \o SelectSeq(FirstRegistrationOrder(Tail(regs)), LAMBDA x : x # n)

\* Names in the order of the registration that is in force (the latest of each)
RECURSIVE LatestRegistrationOrder(_)
LatestRegistrationOrder(regs) ==
    IF regs = <<>> THEN <<>>
    ELSE LET n == regs[Len(regs)].name
         IN  SelectSeq(LatestRegistrationOrder(SubSeq(regs, 1, Len(regs) - 1)),
                       LAMBDA x : x # n) \o <<n>>

\* The tool names the four exports list, in the order they list them
ExportedNames ==
    LET o == openai_tools_format_result(REGISTERED_TOOLS)
        a == anthropic_tools_format_result(REGISTERED_TOOLS)
        g == gemini_tools_format_result(REGISTERED_TOOLS)
        s == get_all_tool_schemas_result(REGISTERED_TOOLS)
    IN  [openai    |-> [i \in 1..Len(o) |-> o[i].function.name],
         anthropic |-> [i \in 1..Len(a) |-> a[i].name],
         gemini    |-> [i \in 1..Len(g) |-> g[i].name],
         all       |-> [i \in 1..Len(s) |-> s[i].key]]

\* C12 (amended): every export lists each registered name once, in the order
\* in which the names were first registered; a re-registered name keeps the
\* place of its first registration.  All exports agree.
C12_ExportsInFirstRegistrationOrder ==
    \A f \in DOMAIN ExportedNames : ExportedNames[f] = FirstRegistrationOrder(registered)

\* C12 (as stated): every export lists the registered tools once, in the order
\* in which the tools now in the registry were registered.
C12_ExportsInRegistrationOrder ==
    \A f \in DOMAIN ExportedNames : ExportedNames[f] = LatestRegistrationOrder(registered)

C12_Witness ==
    /\ toolResult.op \in ExportOps
    /\ Len(toolResult.schemas) = 2
    /\ Len(registered) = 3
    /\ registered[1].name = registered[3].name
    /\ registered[1].name # registered[2].name

-----------------------------------------------------------------------------
(* Properties of stream mode and of the history *)

\* C13: a step in which process_query(stream=True) runs appends the user
\* message and nothing else, makes the one chat call in stream mode and
\* returns the generator that call created; a step in which the caller pulls
\* from a handle leaves the history and the tool layer as they are.
C13_StreamForwardsOnly ==
    [][ /\ (pc = "idle" /\ outcome'.kind = "stream" /\ pc' = "exit")
           => /\ Len(messages') = Len(messages) + 1
              /\ SubSeq(messages', 1, Len(messages)) = messages
              /\ Last(messages').role = "user"
              /\ chatCalls' = 1
              /\ Len(gens') = Len(gens) + 1
              /\ outcome'.handle = Len(gens')
              /\ Last(gens').stream /\ Last(gens').st = "created"
              /\ toolResult' = toolResult
        /\ (pc = "idle" /\ pc' = "idle" /\ gens' # gens)
           => /\ messages' = messages
              /\ toolResult' = toolResult
        /\ (pc = "exit" /\ outcome.kind = "stream")
           => messages' = messages
      ]_vars

C13_Witness ==
    /\ pc = "idle"
    /\ Len(messages) = 2
    /\ Last(messages).role = "user"
    /\ \E i \in 1..Len(gens) :
          gens[i].stream /\ gens[i].st = "done" /\ Len(gens[i].received) >= 1

\* C14: every step keeps the messages already in the history where they are
\* and as they are, and the first message is the system message of
\* construction throughout.
C14_HistoryAppendOnly ==
    /\ [](messages[1] = SystemMessage(default_prompt))
    /\ [][ /\ Len(messages') >= Len(messages)
           /\ SubSeq(messages', 1, Len(messages)) = messages ]_vars

C14_Witness ==
    /\ pc = "exit"
    /\ outcome.kind = "limit"
    /\ CountRole(messages, "user") = 2
    /\ CountRole(messages, "tool") >= 1
    /\ \E i \in 1..Len(messages) :
          messages[i].role = "assistant" /\ ~StartsWith(messages[i].content, PartialMarker)

\* C15: a call that ends at the iteration bound returns the marker followed
\* by the content of the most recent model response.
C15_PartialContentReturned ==
    (pc = "exit" /\ outcome.kind = "limit")
    => outcome.value = PartialMarker \o OrEmpty(normalized.content)

\* C16: a chat call makes at most one vendor request, or two when it is a
\* stream-mode call that had delivered no chunk when the second was made.
C16_NoRetry ==
    \A i \in 1..Len(gens) :
        \/ gens[i].requests <= 1
        \/ /\ gens[i].stream
           /\ gens[i].requests = 2
           /\ gens[i].received = <<>>

\* C17: the first vendor request of a stream-mode chat carries the history
\* that process_query had when it returned the handle, and at most one stream
\* request is open at a time.
C17_StreamRequestHistory ==
    /\ \A i \in 1..Len(gens) :
          (gens[i].stream /\ gens[i].sent # <<>>) => gens[i].sent[1] = gens[i].at_call
    /\ Cardinality({i \in 1..Len(gens) : gens[i].st = "streaming"}) <= 1

====
